---- MODULE Spec2Model ----
(***************************************************************************)
(* dom-utils: tree navigation, the Cursor (position) type, its ordering    *)
(* and movement, and slice, over a DOM tree built with the host's          *)
(* createElement / createTextNode / appendChild.                           *)
(*                                                                         *)
(* The library is stateless; the state of the model is the DOM tree the    *)
(* caller has built, the one Cursor object the caller holds, and a record  *)
(* of the last library call (its arguments and what it returned).  The     *)
(* nodes that slice makes with cloneNode are new nodes of the same heap.   *)
(*                                                                         *)
(* The source holds the library twice (part_001, lines 1-529 and 530-967); *)
(* the definitions below follow the first copy.  An element's text is its  *)
(* textContent: the text of its descendant text nodes, in document order.  *)
(***************************************************************************)
EXTENDS Integers, Sequences, FiniteSets, TLC

(* ------------------------------ bounds --------------------------------- *)
\* most nodes a tree is grown to
MaxNodes == 4
\* longest nodeValue of a text node
MaxTextLen == 3
\* largest |offset| handed to Cursor#move, besides the out-of-bounds one
MaxMove == 2
\* most nodes of a tree that slice is called on
MaxSliceNodes == 3

(* ------------------------------ the DOM -------------------------------- *)
VARIABLES dom, cur, last

vars == <<dom, cur, last>>

\* null / undefined
Null == 0

\* Node.nodeType, by name
ELEMENT_NODE == "element"
TEXT_NODE == "text"
COMMENT_NODE == "comment"
DOCUMENT_FRAGMENT_NODE == "fragment"

\* a string is the sequence of its characters; the i-th character of every
\* text of the model is the number i, so that substrings can be told apart
Str(len) == [i \in 1..len |-> i]

Nodes == 1..Len(dom)

nodeType(n) == dom[n].nodeType
nodeValue(n) == dom[n].nodeValue
parentNode(n) == dom[n].parentNode
childNodes(n) == dom[n].childNodes

hasChildNodes(n) == Len(childNodes(n)) > 0
firstChild(n) == IF hasChildNodes(n) THEN childNodes(n)[1] ELSE Null
lastChild(n) == IF hasChildNodes(n) THEN childNodes(n)[Len(childNodes(n))] ELSE Null

\* the position of n among the children sibs of its parent
ChildIndex(n, sibs) == CHOOSE i \in 1..Len(sibs) : sibs[i] = n

nextSibling(n) ==
    IF parentNode(n) = Null THEN Null
    ELSE LET sibs == childNodes(parentNode(n))
             i == ChildIndex(n, sibs)
         IN IF i = Len(sibs) THEN Null ELSE sibs[i + 1]

previousSibling(n) ==
    IF parentNode(n) = Null THEN Null
    ELSE LET sibs == childNodes(parentNode(n))
             i == ChildIndex(n, sibs)
         IN IF i = 1 THEN Null ELSE sibs[i - 1]

\* a node fresh from document.createElement / createTextNode / createComment /
\* createDocumentFragment
NewNode(type, len) ==
    [nodeType |-> type,
     nodeValue |-> IF type = TEXT_NODE THEN Str(len) ELSE <<>>,
     parentNode |-> Null,
     childNodes |-> <<>>]

\* the nodes the caller appends: elements and text nodes
Created == {NewNode(ELEMENT_NODE, 0)} \cup {NewNode(TEXT_NODE, len) : len \in 0..MaxTextLen}

\* the nodes the caller starts a tree with: also a fragment (as the tests do)
\* and a comment, a node of a kind that is neither element nor text
Roots == Created \cup {NewNode(DOCUMENT_FRAGMENT_NODE, 0), NewNode(COMMENT_NODE, 0)}

NoCall == [op |-> "none"]

\* the caller holds no cursor yet
NoCursor == [node |-> Null, index |-> 0]

(* -------------------------- tree navigation ---------------------------- *)
RECURSIVE getFirstLeafNode(_)
getFirstLeafNode(node) ==
    IF hasChildNodes(node) THEN getFirstLeafNode(firstChild(node)) ELSE node

RECURSIVE getLastLeafNode(_)
getLastLeafNode(node) ==
    IF hasChildNodes(node) THEN getLastLeafNode(lastChild(node)) ELSE node

\* mutant: looks at the node's own next sibling only, never at an ancestor's
getNextExtendedSibling_NoWalkUp(node) ==
    IF node = Null THEN Null ELSE nextSibling(node)

RECURSIVE getNextExtendedSibling(_)
getNextExtendedSibling(node) ==
    IF node = Null THEN Null
    ELSE LET next == nextSibling(node)
         IN IF next # Null THEN next ELSE getNextExtendedSibling(parentNode(node))

RECURSIVE getPreviousExtendedSibling(_)
getPreviousExtendedSibling(node) ==
    IF node = Null THEN Null
    ELSE LET previous == previousSibling(node)
         IN IF previous # Null THEN previous
            ELSE getPreviousExtendedSibling(parentNode(node))

\* mutant: never descends to the first child
getNextNode_SkipChildren(node) == getNextExtendedSibling(node)

getNextNode(node) ==
    IF hasChildNodes(node) THEN firstChild(node) ELSE getNextExtendedSibling(node)

\* mutant: stops at the previous sibling instead of its last leaf
getPreviousNode_NoDescent(node) ==
    IF previousSibling(node) = Null THEN parentNode(node) ELSE previousSibling(node)

getPreviousNode(node) ==
    IF previousSibling(node) = Null THEN parentNode(node)
    ELSE getLastLeafNode(previousSibling(node))

RECURSIVE getRootNode(_)
getRootNode(node) ==
    IF parentNode(node) # Null THEN getRootNode(parentNode(node)) ELSE node

(* ------------------------------ JS values ------------------------------ *)
\* the values a caller may hand over as a cursor index
Num(n) == [type |-> "number", val |-> n]
Bool(b) == [type |-> "boolean", val |-> b]
Undefined == [type |-> "undefined"]
NullValue == [type |-> "null"]
\* the number half way between n and n + 1, NaN, and a string
Half(n) == [type |-> "number", val |-> n, plus |-> "1/2"]
NaN == [type |-> "number", nan |-> TRUE]
String(s) == [type |-> "string", val |-> s]

isNaN(n) == "nan" \in DOMAIN n
\* a number with no fractional part
IsInteger(n) == n.type = "number" /\ DOMAIN n = {"type", "val"}

\* a value that is no DOM node: a plain object
PlainObject == -1

\* node instanceof Node
isNode(node) == node \in Nodes

Max(a, b) == IF a > b THEN a ELSE b
Abs(a) == IF a < 0 THEN -a ELSE a

(* --------------------------- text extraction --------------------------- *)
RECURSIVE getTextContent(_)
RECURSIVE getTextContentOfArray(_)
\* an element answers with its textContent: the text of its descendants
getTextContent(node) ==
    CASE nodeType(node) = DOCUMENT_FRAGMENT_NODE -> getTextContentOfArray(childNodes(node))
      [] nodeType(node) = ELEMENT_NODE -> getTextContentOfArray(childNodes(node))
      [] nodeType(node) = TEXT_NODE -> nodeValue(node)
      [] OTHER -> <<>>
getTextContentOfArray(nodes) ==
    IF nodes = <<>> THEN <<>>
    ELSE getTextContent(Head(nodes)) \o getTextContentOfArray(Tail(nodes))

(* ------------------------------- Cursor -------------------------------- *)
\* the index setter: what this[1] becomes, or that the setter throws
\* (val is the integer part of the number kept, whole tells that it has no
\* fractional part)
SetIndex(n) ==
    LET n0 == IF n \in {Undefined, NullValue} THEN Num(0) ELSE n
        n1 == IF n0.type = "boolean" THEN Num(IF n0.val THEN 1 ELSE 0) ELSE n0
    IN IF n1.type # "number" \/ isNaN(n1) \/ n1.val < 0
       THEN [thrown |-> TRUE]
       ELSE [thrown |-> FALSE, val |-> n1.val, whole |-> IsInteger(n1)]

\* the index setter of the second definition of Cursor: null and undefined
\* are not taken for 0
SetIndexSecond(n) ==
    LET n1 == IF n.type = "boolean" THEN Num(IF n.val THEN 1 ELSE 0) ELSE n
    IN IF n1.type # "number" \/ isNaN(n1) \/ n1.val < 0
       THEN [thrown |-> TRUE]
       ELSE [thrown |-> FALSE, val |-> n1.val, whole |-> IsInteger(n1)]

\* the fields of a cursor on node whose index setter answered set: the index,
\* and the half it exceeds its integer part by when it is no integer
CursorFields(node, set) ==
    IF set.whole THEN [node |-> node, index |-> set.val]
    ELSE [node |-> node, index |-> set.val, plus |-> "1/2"]

\* this.node = node; this.index = index; return this, on the cursor with
\* fields c: the fields afterwards, what is returned, whether the index setter
\* threw, and the return statement reached (path)
Assign(c, node, index, path) ==
    LET set == SetIndex(index)
    IN IF set.thrown
       THEN [thrown |-> TRUE, this |-> [c EXCEPT !.node = node], returns |-> "nothing",
             path |-> path]
       ELSE [thrown |-> FALSE, this |-> CursorFields(node, set),
             returns |-> "this", path |-> path]

\* the offset was out of bounds: the very end or beginning of the root
Saturate(c, node, reverse) == Assign(c, getRootNode(node), Bool(~reverse), "saturate")

\* mutant: the index is counted from the start of the text in both directions
LandingIndex_IgnoreReverse(len, index, reverse) == index

\* this.index of the text node the walk ends in: index characters from the
\* edge the walk entered it by
LandingIndex(len, index, reverse) == IF reverse THEN len - index ELSE index

RECURSIVE Walk(_, _, _, _, _)
\* the while loop of move: curnode and count are the loop's variables
Walk(c, curnode, count, offset, reverse) ==
    IF curnode = Null THEN Saturate(c, c.node, reverse)
    ELSE IF nodeType(curnode) \in {ELEMENT_NODE, TEXT_NODE}
    THEN LET len == Len(getTextContent(curnode))
         IN IF count + len > offset
            THEN IF nodeType(curnode) = ELEMENT_NODE
                 THEN Walk(c, IF reverse THEN lastChild(curnode) ELSE firstChild(curnode),
                           count, offset, reverse)
                 ELSE Assign(c, curnode, Num(LandingIndex(len, offset - count, reverse)), "walk")
            ELSE Walk(c, IF reverse THEN getPreviousExtendedSibling(curnode)
                                    ELSE getNextExtendedSibling(curnode),
                      count + len, offset, reverse)
    ELSE Walk(c, IF reverse THEN getPreviousExtendedSibling(curnode)
                            ELSE getNextExtendedSibling(curnode),
              count, offset, reverse)

\* mutant: the offset is added in both directions
FastIndex_IgnoreReverse(index, offset, reverse) == index + offset

\* this.index when the offset falls inside the anchor's own text
FastIndex(index, offset, reverse) == IF reverse THEN index - offset ELSE index + offset

\* the text branch of move: the fast path when the offset falls inside the
\* anchor's own text, else the walk from the anchor's extended sibling
MoveFromText(c, offset, reverse) ==
    LET node == c.node
        index == c.index
        count == IF reverse THEN index ELSE Max(Len(getTextContent(node)) - index, 0)
    IN IF count > offset
       THEN Assign(c, node, Num(FastIndex(index, offset, reverse)), "fast")
       ELSE Walk(c, IF reverse THEN getPreviousExtendedSibling(node)
                               ELSE getNextExtendedSibling(node),
                 count, offset, reverse)

\* the other branch of move: the walk starts at the anchor itself or at its
\* extended sibling, by the side the cursor is on
MoveFromNode(c, offset, reverse) ==
    Walk(c, IF c.index # 0
            THEN (IF reverse THEN c.node ELSE getNextExtendedSibling(c.node))
            ELSE (IF reverse THEN getPreviousExtendedSibling(c.node) ELSE c.node),
         0, offset, reverse)

\* mutant: a pure move, which answers with a new cursor and leaves this alone
move_Pure(c, k) ==
    [thrown |-> FALSE, this |-> c, returns |-> "new", path |-> "fast"]

\* Cursor.prototype.move on the cursor with fields c
move(c, k) ==
    IF nodeType(c.node) = TEXT_NODE
    THEN MoveFromText(c, Abs(k), k < 0)
    ELSE MoveFromNode(c, Abs(k), k < 0)

(* ------------------------------ ordering ------------------------------- *)
\* matches(node, selector) for a selector that is a node
matches(node, selector) == node = selector

RECURSIVE contains(_, _)
contains(parent, node) ==
    IF node = Null THEN FALSE
    ELSE IF matches(node, parent) THEN TRUE
    ELSE contains(parent, parentNode(node))

RECURSIVE ScanPrevious(_, _)
\* the while loop of isAfter
ScanPrevious(node, target) ==
    IF node = Null THEN FALSE
    ELSE IF contains(node, target) THEN TRUE
    ELSE ScanPrevious(getPreviousExtendedSibling(node), target)

RECURSIVE ScanNext(_, _)
\* the while loop of isBefore
ScanNext(node, target) ==
    IF node = Null THEN FALSE
    ELSE IF contains(node, target) THEN TRUE
    ELSE ScanNext(getNextExtendedSibling(node), target)

\* this.isAfter(cursor), this being the cursor with fields c
isAfter(c, cursor) ==
    IF c.node = cursor.node
    THEN IF nodeType(c.node) = TEXT_NODE
         THEN c.index > cursor.index
         ELSE IF c.index # 0 THEN (IF cursor.index # 0 THEN FALSE ELSE TRUE) ELSE FALSE
    ELSE ScanPrevious(IF c.index # 0 THEN c.node ELSE getPreviousExtendedSibling(c.node),
                      cursor.node)

\* mutant: on the same text node the offsets are compared the wrong way round
isBefore_OffsetsReversed(c, cursor) ==
    IF c.node = cursor.node
    THEN IF nodeType(c.node) = TEXT_NODE
         THEN c.index > cursor.index
         ELSE IF c.index # 0 THEN FALSE ELSE (IF cursor.index # 0 THEN TRUE ELSE FALSE)
    ELSE ScanNext(IF c.index # 0 THEN getNextExtendedSibling(c.node) ELSE c.node,
                  cursor.node)

\* this.isBefore(cursor)
isBefore(c, cursor) ==
    IF c.node = cursor.node
    THEN IF nodeType(c.node) = TEXT_NODE
         THEN c.index < cursor.index
         ELSE IF c.index # 0 THEN FALSE ELSE (IF cursor.index # 0 THEN TRUE ELSE FALSE)
    ELSE ScanNext(IF c.index # 0 THEN getNextExtendedSibling(c.node) ELSE c.node,
                  cursor.node)

(* ------------------------------ actions -------------------------------- *)
\* the caller creates the root of a tree: a fragment (as the tests do), or a
\* detached element, text node or comment
Init ==
    /\ dom \in {<<r>> : r \in Roots}
    /\ cur = NoCursor
    /\ last = NoCall

\* parent.appendChild(created): the new node becomes the last child. The
\* caller builds the tree in document order (the parent is the last node so
\* far or one of its ancestors), which yields every ordered tree once, its
\* nodes numbered in document order. The tree is built before the library is
\* called on it: no call of the library changes the tree.
AppendChild(parent, created) ==
    /\ Len(dom) < MaxNodes
    /\ cur = NoCursor /\ last = NoCall
    /\ nodeType(parent) \in {ELEMENT_NODE, DOCUMENT_FRAGMENT_NODE}
    /\ getLastLeafNode(parent) = Len(dom)
    /\ dom' = Append([dom EXCEPT ![parent].childNodes = Append(@, Len(dom) + 1)],
                     [created EXCEPT !.parentNode = parent])
    /\ UNCHANGED <<cur, last>>

Build == \E parent \in Nodes, created \in Created : AppendChild(parent, created)

CallGetNextNode(node) ==
    /\ last' = [op |-> "getNextNode", node |-> node, ret |-> getNextNode(node)]
    /\ UNCHANGED <<dom, cur>>

CallGetPreviousNode(node) ==
    /\ last' = [op |-> "getPreviousNode", node |-> node, ret |-> getPreviousNode(node)]
    /\ UNCHANGED <<dom, cur>>

NextNav ==
    \/ Build
    \/ \E node \in Nodes : CallGetNextNode(node)
    \/ \E node \in Nodes : CallGetPreviousNode(node)

SpecNav == Init /\ [][NextNav]_vars

\* an offset no tree of the model has the text for
Huge == MaxNodes * MaxTextLen + 1

\* the indexes of the positions on a node: a character index of its text, or
\* a side of a node that is no text node
IndexInputs(node) ==
    IF nodeType(node) = TEXT_NODE
    THEN {Num(i) : i \in 0..Len(nodeValue(node))}
    ELSE {Bool(FALSE), Bool(TRUE)}
Offsets == (-MaxMove..MaxMove) \cup {Huge, -Huge}

\* cur = new Cursor(node, index): the caller makes the cursor it then holds
NewCursor(node, index) ==
    LET set == SetIndex(index)
        thrown == ~isNode(node) \/ set.thrown
    IN /\ cur = NoCursor
       /\ cur' = IF thrown THEN cur ELSE CursorFields(node, set)
       /\ last' = [op |-> "new Cursor", node |-> node, index |-> index, thrown |-> thrown]
       /\ UNCHANGED dom

\* cur.move(offset)
CallMove(offset) ==
    /\ cur # NoCursor
    /\ LET r == move(cur, offset)
       IN /\ cur' = r.this
          /\ last' = [op |-> "move", pre |-> cur, offset |-> offset,
                      returns |-> r.returns, thrown |-> r.thrown, path |-> r.path]
    /\ UNCHANGED dom

NextMove ==
    \/ Build
    \/ \E node \in Nodes : \E index \in IndexInputs(node) : NewCursor(node, index)
    \/ \E offset \in Offsets : CallMove(offset)

SpecMove == Init /\ [][NextMove]_vars

\* Cursor.toCursor([node, index]): the fields of the cursor it makes
toCursor(node, index) == CursorFields(node, SetIndex(index))

\* cur.isAfter([node, index])
CallIsAfter(node, index) ==
    /\ cur # NoCursor
    /\ last' = [op |-> "isAfter", this |-> cur, cursor |-> toCursor(node, index),
                ret |-> isAfter(cur, toCursor(node, index))]
    /\ UNCHANGED <<dom, cur>>

\* cur.isBefore([node, index])
CallIsBefore(node, index) ==
    /\ cur # NoCursor
    /\ last' = [op |-> "isBefore", this |-> cur, cursor |-> toCursor(node, index),
                ret |-> isBefore(cur, toCursor(node, index))]
    /\ UNCHANGED <<dom, cur>>

NextOrder ==
    \/ Build
    \/ \E node \in Nodes : \E index \in IndexInputs(node) : NewCursor(node, index)
    \/ \E node \in Nodes : \E index \in IndexInputs(node) : CallIsAfter(node, index)
    \/ \E node \in Nodes : \E index \in IndexInputs(node) : CallIsBefore(node, index)

SpecOrder == Init /\ [][NextOrder]_vars

(* ------------------------------- slice --------------------------------- *)
Min(a, b) == IF a < b THEN a ELSE b

\* String.prototype.substring(start, end): the arguments are clamped to the
\* string and swapped when start is the larger
substring(text, start, end) ==
    LET from == Min(Min(start, end), Len(text))
        to == Min(Max(start, end), Len(text))
    IN SubSeq(text, from + 1, to)

\* String.prototype.substr(start, length)
substr(text, start, length) ==
    SubSeq(text, Min(start, Len(text)) + 1, Min(start + length, Len(text)))

\* mutant: the new node takes the children of the node away
cloneNode_TakesChildren(h, node) ==
    Append([h EXCEPT ![node].childNodes = <<>>],
           [nodeType |-> h[node].nodeType, nodeValue |-> h[node].nodeValue,
            parentNode |-> Null, childNodes |-> <<>>])

\* node.cloneNode(false) on the heap h: a new node of the same kind and value,
\* without parent and children
cloneNode(h, node) ==
    Append(h, [nodeType |-> h[node].nodeType, nodeValue |-> h[node].nodeValue,
               parentNode |-> Null, childNodes |-> <<>>])

\* parent.appendChild(child) on the heap h: the child leaves the parent it
\* has, if any, and becomes the last child of parent
appendChild(h, parent, child) ==
    LET old == h[child].parentNode
        h1 == IF old = Null THEN h
              ELSE [h EXCEPT ![old].childNodes =
                        SelectSeq(@, LAMBDA c : c # child)]
    IN [h1 EXCEPT ![parent].childNodes = Append(@, child),
                  ![child].parentNode = parent]

\* the test of extract: the node wraps the start or the end node, or lies
\* between the two cursors
Extracted(node, start, end) ==
    \/ contains(node, start.node)
    \/ contains(node, end.node)
    \/ (isBefore(start, toCursor(node, Undefined)) /\ isAfter(end, toCursor(node, Undefined)))

\* the text a cloned text node is given
Chopped(node, start, end) ==
    LET text == nodeValue(node)
        isStart == matches(node, start.node)
        isEnd == matches(node, end.node)
    IN IF isStart /\ isEnd THEN substring(text, start.index, end.index)
       ELSE IF isStart THEN substr(text, start.index, Len(text))
       ELSE IF isEnd THEN substr(text, 0, end.index)
       ELSE text

\* the same in the second definition of slice: two steps, one after the other
ChoppedSecond(node, start, end) ==
    LET text == nodeValue(node)
        text1 == IF matches(node, start.node) THEN substr(text, start.index, Len(text))
                 ELSE text
    IN IF matches(node, end.node) THEN substr(text1, 0, end.index) ELSE text1

RECURSIVE extract(_, _, _, _, _)
RECURSIVE extractChildren(_, _, _, _, _, _)
\* extract(node) of slice, on the heap of r: r.heap afterwards, the clone it
\* returns (r.ret, Null for undefined) and whether it threw; r.of lists the
\* nodes cloned so far.  In the second definition the index setter throws on
\* the undefined index of the cursor that isBefore makes of the node.
extract(r, node, start, end, second) ==
    IF r.thrown # "no" THEN r
    ELSE IF second /\ ~contains(node, start.node) /\ ~contains(node, end.node)
                   /\ SetIndexSecond(Undefined).thrown
    THEN [r EXCEPT !.thrown = "Expecting a non-negative integer for the index.",
                   !.ret = Null]
    ELSE IF Extracted(node, start, end)
    THEN LET clone == Len(r.heap) + 1
             cloned == cloneNode(r.heap, node)
             chopped == IF nodeType(node) = TEXT_NODE
                        THEN [cloned EXCEPT ![clone].nodeValue =
                                 IF second THEN ChoppedSecond(node, start, end)
                                 ELSE Chopped(node, start, end)]
                        ELSE cloned
             r1 == [r EXCEPT !.heap = chopped, !.of = Append(@, node)]
             r2 == IF hasChildNodes(node)
                   THEN extractChildren(r1, clone, childNodes(node), start, end, second)
                   ELSE r1
         IN IF r2.thrown # "no" THEN r2 ELSE [r2 EXCEPT !.ret = clone]
    ELSE [r EXCEPT !.ret = Null]

\* the forEach over the children of the node that clone was made of
extractChildren(r, clone, children, start, end, second) ==
    IF children = <<>> \/ r.thrown # "no" THEN r
    ELSE LET nc == extract(r, Head(children), start, end, second)
             r1 == IF nc.thrown = "no" /\ nc.ret # Null
                   THEN [nc EXCEPT !.heap = appendChild(nc.heap, clone, nc.ret)]
                   ELSE nc
         IN extractChildren(r1, clone, Tail(children), start, end, second)

\* what slice answers when it throws
Throws(message) == [thrown |-> message, heap |-> dom, ret |-> Null, of |-> <<>>]

\* slice(start, end, root), of the first or the second definition.  A cursor
\* argument is the array [node, index], or null (its node is Null); root is a
\* node or null.
slice(start, end, root, second) ==
    LET start0 == IF start.node = Null THEN NoCursor ELSE toCursor(start.node, start.index)
        end0 == IF end.node = Null THEN NoCursor ELSE toCursor(end.node, end.index)
    IN IF root = Null /\ (start0 = NoCursor \/ end0 = NoCursor)
       THEN Throws("Must specify a root node if start and end cursors are not defined.")
       ELSE LET root1 == IF root = Null
                         THEN getRootNode(IF start0 = NoCursor THEN end0.node ELSE start0.node)
                         ELSE root
                start1 == IF start0 = NoCursor THEN toCursor(root1, Bool(FALSE)) ELSE start0
                end1 == IF end0 = NoCursor THEN toCursor(root1, Bool(TRUE)) ELSE end0
            IN IF ~contains(root1, start1.node)
               THEN Throws("Start node isn't in the root node.")
               ELSE IF ~contains(root1, end1.node)
               THEN Throws("End node isn't in the root node.")
               ELSE LET swap == isAfter(start1, end1)
                        start2 == IF swap THEN end1 ELSE start1
                        end2 == IF swap THEN start1 ELSE end1
                    IN [start |-> start2, end |-> end2, root |-> root1] @@
                       extract([thrown |-> "no", heap |-> dom, ret |-> Null, of |-> <<>>],
                               root1, start2, end2, second)

\* the cursor arguments of slice: null, or a position of the tree
NoArgument == [node |-> Null, index |-> Undefined]
CursorInputs ==
    {NoArgument} \cup
        UNION {{[node |-> node, index |-> index] : index \in IndexInputs(node)} : node \in Nodes}

\* slice(start, end, root) of the first (second = FALSE) or of the second
\* definition: the clones are new nodes of the heap
CallSlice(start, end, root, second) ==
    /\ last = NoCall
    /\ Len(dom) <= MaxSliceNodes
    /\ LET r == slice(start, end, root, second)
       IN /\ dom' = r.heap
          /\ last' = [op |-> "slice", second |-> second, size |-> Len(dom),
                      args |-> [start |-> start, end |-> end, root |-> root],
                      thrown |-> r.thrown, ret |-> r.ret, of |-> r.of,
                      start |-> IF r.thrown = "no" THEN r.start ELSE NoCursor,
                      end |-> IF r.thrown = "no" THEN r.end ELSE NoCursor]
    /\ UNCHANGED cur

NextSlice ==
    \/ Build
    \/ \E start \in CursorInputs, end \in CursorInputs, root \in Nodes \cup {Null} :
          CallSlice(start, end, root, FALSE)

SpecSlice == Init /\ [][NextSlice]_vars

\* the same calls, made to the second definition of slice
NextSliceSecond ==
    \/ Build
    \/ \E start \in CursorInputs, end \in CursorInputs, root \in Nodes \cup {Null} :
          CallSlice(start, end, root, TRUE)

SpecSliceSecond == Init /\ [][NextSliceSecond]_vars

\* the comparisons of a cursor with the positions on its own anchor
NextSameAnchor ==
    \/ Build
    \/ \E node \in Nodes : \E index \in IndexInputs(node) : NewCursor(node, index)
    \/ cur # NoCursor /\ \E index \in IndexInputs(cur.node) : CallIsAfter(cur.node, index)
    \/ cur # NoCursor /\ \E index \in IndexInputs(cur.node) : CallIsBefore(cur.node, index)

SpecSameAnchor == Init /\ [][NextSameAnchor]_vars

\* the values a caller may pass for a node: the nodes, null, a plain object
NodeInputs == Nodes \cup {Null, PlainObject}

\* the values a caller may pass for an index
IndexValues ==
    {Undefined, NullValue, Bool(FALSE), Bool(TRUE), NaN, String("1")}
        \cup {Num(i) : i \in -1..MaxTextLen} \cup {Half(i) : i \in -1..1}

\* cur = new Cursor(node, index), by the second definition of Cursor
NewCursorSecond(node, index) ==
    LET set == SetIndexSecond(index)
        thrown == ~isNode(node) \/ set.thrown
    IN /\ cur = NoCursor
       /\ cur' = IF thrown THEN cur ELSE CursorFields(node, set)
       /\ last' = [op |-> "new Cursor (second)", node |-> node, index |-> index,
                   thrown |-> thrown]
       /\ UNCHANGED dom

\* cur.node = n
AssignNode(n) ==
    /\ cur # NoCursor
    /\ last.op # "new Cursor (second)"
    /\ cur' = IF isNode(n) THEN [cur EXCEPT !.node = n] ELSE cur
    /\ last' = [op |-> "node =", node |-> n, thrown |-> ~isNode(n)]
    /\ UNCHANGED dom

\* cur.index = n
AssignIndex(n) ==
    LET set == SetIndex(n)
    IN /\ cur # NoCursor
       /\ last.op # "new Cursor (second)"
       /\ cur' = IF set.thrown THEN cur ELSE CursorFields(cur.node, set)
       /\ last' = [op |-> "index =", index |-> n, thrown |-> set.thrown]
       /\ UNCHANGED dom

NextCursor ==
    \/ Build
    \/ \E node \in NodeInputs, index \in IndexValues : NewCursor(node, index)
    \/ \E node \in NodeInputs, index \in IndexValues : NewCursorSecond(node, index)
    \/ \E n \in NodeInputs : AssignNode(n)
    \/ \E n \in IndexValues : AssignIndex(n)

SpecCursor == Init /\ [][NextCursor]_vars

(* --------------------- document order, for the claims ------------------ *)
RECURSIVE Preorder(_)
RECURSIVE PreorderAll(_)
\* n, then the subtrees of its children, first to last
Preorder(n) == <<n>> \o PreorderAll(childNodes(n))
PreorderAll(ns) == IF ns = <<>> THEN <<>> ELSE Preorder(Head(ns)) \o PreorderAll(Tail(ns))

\* every node of the tree, in document order (node 1 is the root)
DocOrder == Preorder(1)
DocIndex(n) == LET order == DocOrder IN CHOOSE i \in 1..Len(order) : order[i] = n
DocSuccessor(n) ==
    LET order == DocOrder
        i == DocIndex(n)
    IN IF i = Len(order) THEN Null ELSE order[i + 1]
DocPredecessor(n) ==
    LET order == DocOrder
        i == DocIndex(n)
    IN IF i = 1 THEN Null ELSE order[i - 1]
\* the nodes that come before n in document order
Preceding(n) == LET order == DocOrder IN {order[i] : i \in 1..(DocIndex(n) - 1)}

RECURSIVE AncestorsOrSelf(_)
\* n, its parent, ... up to the root
AncestorsOrSelf(n) == IF n = Null THEN <<>> ELSE <<n>> \o AncestorsOrSelf(parentNode(n))

\* the next sibling of the nearest ancestor-or-self of n that has one
NearestNextSibling(n) ==
    LET up == AncestorsOrSelf(n)
        has == {i \in 1..Len(up) : nextSibling(up[i]) # Null}
    IN IF has = {} THEN Null
       ELSE nextSibling(up[CHOOSE i \in has : \A j \in has : i <= j])

\* the set of leaves under n that are reached through last children only
DeepestLastLeaf(n) ==
    CHOOSE l \in Nodes :
        /\ ~hasChildNodes(l)
        /\ \E i \in 1..Len(AncestorsOrSelf(l)) :
              /\ AncestorsOrSelf(l)[i] = n
              /\ \A j \in 1..(i - 1) : nextSibling(AncestorsOrSelf(l)[j]) = Null

(* ------------------------- claims: navigation -------------------------- *)
\* C1: getNextNode and getPreviousNode are exact inverses: the next node of a
\* non-null previous node of n is n, and the previous node of a non-null next
\* node of n is n.
C1_Inverses ==
    /\ (last.op = "getPreviousNode" /\ last.ret # Null) => getNextNode(last.ret) = last.node
    /\ (last.op = "getNextNode" /\ last.ret # Null) => getPreviousNode(last.ret) = last.node

\* the previous node was the last leaf of a previous sibling that has children
C1_Witness ==
    /\ last.op = "getPreviousNode"
    /\ previousSibling(last.node) # Null
    /\ hasChildNodes(previousSibling(last.node))
    /\ getNextNode(last.ret) = last.node

\* C2: getNextNode(n) is the document-order successor of n: the first child
\* when n has children, else the next sibling of the nearest ancestor-or-self
\* that has one, and null when n is the last node of the tree.
C2_NextIsSuccessor ==
    last.op = "getNextNode" =>
        /\ last.ret = DocSuccessor(last.node)
        /\ hasChildNodes(last.node) => last.ret = childNodes(last.node)[1]
        /\ ~hasChildNodes(last.node) => last.ret = NearestNextSibling(last.node)
        /\ last.ret = Null <=> last.node = DocOrder[Len(DocOrder)]

\* the successor of a childless last child is the next sibling of an ancestor
C2_Witness ==
    /\ last.op = "getNextNode"
    /\ ~hasChildNodes(last.node)
    /\ nextSibling(last.node) = Null
    /\ last.ret # Null
    /\ last.ret = DocSuccessor(last.node)

RECURSIVE SumTextLen(_)
\* the number of characters in the text nodes of the set S
SumTextLen(S) ==
    IF S = {} THEN 0
    ELSE LET n == CHOOSE m \in S : TRUE
         IN (IF nodeType(n) = TEXT_NODE THEN Len(nodeValue(n)) ELSE 0) + SumTextLen(S \ {n})

\* the nodes of the subtree of n
Subtree(n) == LET sub == Preorder(n) IN {sub[i] : i \in 1..Len(sub)}

TotalText == SumTextLen(Nodes)

\* a character index within the text of a text anchor; any side of another node
IsPosition(p) ==
    /\ p.node \in Nodes
    /\ nodeType(p.node) = TEXT_NODE => p.index <= Len(nodeValue(p.node))

\* the number of characters of the tree that lie before the position p
LinearOffset(p) ==
    SumTextLen(Preceding(p.node))
      + (IF nodeType(p.node) = TEXT_NODE THEN p.index
         ELSE IF p.index = 0 THEN 0 ELSE SumTextLen(Subtree(p.node)))

\* the position at the very beginning / the very end of the tree
IsVeryBeginning(p) == IsPosition(p) /\ p.node = 1 /\ p.index = 0
IsVeryEnd(p) ==
    /\ IsPosition(p)
    /\ p.node = 1
    /\ IF nodeType(1) = TEXT_NODE THEN p.index = Len(nodeValue(1)) ELSE p.index # 0

\* the last call was move, on a position, and did not fall off the tree
MovedWithin ==
    /\ last.op = "move"
    /\ IsPosition(last.pre)
    /\ LinearOffset(last.pre) + last.offset \in 0..TotalText

(* --------------------------- claims: move ------------------------------ *)
\* C4: move(k) lands exactly |k| characters away in document order: when the
\* linear text offset L(p)+k lies within [0, total text length], the resulting
\* position has linear text offset L(p)+k.
C4_MoveLandsAtOffset ==
    MovedWithin =>
        /\ ~last.thrown
        /\ IsPosition(cur)
        /\ LinearOffset(cur) = LinearOffset(last.pre) + last.offset

\* the receiver's fields after the way back, cur.move(-k), from where the
\* last move(k) left the cursor
WayBack == move(cur, -last.offset)

\* the last call was move(k) on a position, and neither it nor the way back
\* was clamped to the root
RoundTripWithin ==
    /\ last.op = "move"
    /\ IsPosition(last.pre)
    /\ last.path # "saturate"
    /\ WayBack.path # "saturate"

\* C5 as claimed: move(move(p, k), -k) is p, same anchor and same offset,
\* whenever neither the intermediate nor the final position is saturated.
C5_RoundTripExact ==
    RoundTripWithin => WayBack.this = last.pre

\* C5 as amended: the round trip ends at the linear text offset of p, and at
\* p itself when p lies strictly inside the text of a text node.
C5_RoundTripOffset ==
    RoundTripWithin =>
        LET back == WayBack.this
        IN /\ IsPosition(back)
           /\ LinearOffset(back) = LinearOffset(last.pre)
           /\ (/\ nodeType(last.pre.node) = TEXT_NODE
               /\ last.pre.index > 0
               /\ last.pre.index < Len(nodeValue(last.pre.node))) => back = last.pre

\* a round trip that left the anchor's text and came back to another anchor
C5_Witness ==
    /\ RoundTripWithin
    /\ last.offset # 0
    /\ last.path = "walk"
    /\ WayBack.path = "walk"
    /\ WayBack.this # last.pre
    /\ LinearOffset(WayBack.this) = LinearOffset(last.pre)

\* C6: when the walk runs off the tree, move does not fail and returns a
\* position on the root: at the very end (after) when moving forward, at the
\* very beginning (before) when moving backward, also in a single-node tree.
C6_Saturation ==
    (last.op = "move" /\ IsPosition(last.pre) /\ last.path = "saturate") =>
        /\ ~last.thrown
        /\ last.returns # "nothing"
        /\ cur.node = getRootNode(last.pre.node)
        /\ last.offset >= 0 => IsVeryEnd(cur)
        /\ last.offset < 0 => IsVeryBeginning(cur)

\* C7: saturation is idempotent: after a move by more than the text that
\* remains after p, a move by 1 leaves the cursor where it is.
C7_SaturationIdempotent ==
    (/\ last.op = "move"
     /\ IsPosition(last.pre)
     /\ last.offset > TotalText - LinearOffset(last.pre)) =>
        move(cur, 1).this = cur

\* the length of the text between a text position and the edge of its node in
\* the direction of travel
RemainingInAnchor(p, k) == IF k < 0 THEN p.index ELSE Len(nodeValue(p.node)) - p.index

OnText == last.op = "move" /\ IsPosition(last.pre) /\ nodeType(last.pre.node) = TEXT_NODE

\* C8 as claimed: on a text anchor, whenever |k| is not greater than the
\* characters between the position and the edge of its node, the cursor stays
\* on the anchor with its offset changed by k, and no tree walk happens.
C8_FastPathUpToEdge ==
    (OnText /\ Abs(last.offset) <= RemainingInAnchor(last.pre, last.offset)) =>
        /\ last.path = "fast"
        /\ cur = [node |-> last.pre.node, index |-> last.pre.index + last.offset]

\* C8 as amended: the same, whenever |k| is smaller than that count.
C8_FastPathInside ==
    (OnText /\ Abs(last.offset) < RemainingInAnchor(last.pre, last.offset)) =>
        /\ last.path = "fast"
        /\ cur = [node |-> last.pre.node, index |-> last.pre.index + last.offset]

\* a backward move inside the anchor's text
C8_Witness ==
    /\ OnText
    /\ last.offset < 0
    /\ Abs(last.offset) < RemainingInAnchor(last.pre, last.offset)
    /\ last.path = "fast"
    /\ cur.index = last.pre.index + last.offset

\* C9 as claimed: move returns a new position and leaves the position it was
\* called on unchanged, on the fast path, on the walk and on saturation.
C9_InputUnchanged ==
    last.op = "move" => (last.returns = "new" /\ cur = last.pre)

\* C9 as amended: move assigns the moved anchor and offset to the cursor it is
\* called on and returns that same cursor, on the fast path, on the walk and on
\* saturation.
C9_MovesInPlace ==
    (last.op = "move" /\ IsPosition(last.pre)) =>
        /\ ~last.thrown
        /\ last.returns = "this"
        /\ last.path = "fast" =>
              cur = [node |-> last.pre.node, index |-> last.pre.index + last.offset]
        /\ last.path = "walk" =>
              /\ nodeType(cur.node) = TEXT_NODE
              /\ cur.node # last.pre.node
              /\ IsPosition(cur)
        /\ last.path = "saturate" =>
              cur = [node |-> getRootNode(last.pre.node),
                     index |-> IF last.offset < 0 THEN 0 ELSE 1]

\* the walk put the receiver on another anchor
C9_Witness ==
    /\ last.op = "move"
    /\ last.path = "walk"
    /\ last.returns = "this"
    /\ cur.node # last.pre.node

(* -------------------------- claims: ordering --------------------------- *)
\* what a.isBefore(b) and a.isAfter(b) answer for the two cursors of the last
\* comparison: the answer the call gave, and the other method's on the same pair
Compared == last.op \in {"isBefore", "isAfter"}
SaysBefore == IF last.op = "isBefore" THEN last.ret ELSE isBefore(last.this, last.cursor)
SaysAfter == IF last.op = "isAfter" THEN last.ret ELSE isAfter(last.this, last.cursor)

\* C10: for two positions a and b of a tree, a.isBefore(b) and a.isAfter(b)
\* are never both true, and exactly one is true when a and b are distinct,
\* also when one anchor is an ancestor or a descendant of the other.
C10_Trichotomy ==
    Compared =>
        /\ ~(SaysBefore /\ SaysAfter)
        /\ last.this # last.cursor => (SaysBefore \/ SaysAfter)

\* the two cursors of the last comparison sit on the same anchor
SameAnchor == Compared /\ last.this.node = last.cursor.node

\* C11: for two positions on the same anchor, isBefore and isAfter compare the
\* offsets numerically when the anchor is a text node; on any other anchor the
\* before side (offset 0) is before the after side (offset not 0); with equal
\* offsets both answer false.
C11_SameAnchorOrdering ==
    SameAnchor =>
        LET a == last.this
            b == last.cursor
        IN /\ nodeType(a.node) = TEXT_NODE =>
                 /\ SaysBefore <=> a.index < b.index
                 /\ SaysAfter <=> a.index > b.index
           /\ nodeType(a.node) # TEXT_NODE =>
                 /\ SaysBefore <=> (a.index = 0 /\ b.index # 0)
                 /\ SaysAfter <=> (a.index # 0 /\ b.index = 0)
           /\ a.index = b.index => (~SaysBefore /\ ~SaysAfter)

\* a smaller offset on the same text node was found to be before a larger one
C11_Witness ==
    /\ SameAnchor
    /\ last.op = "isBefore"
    /\ nodeType(last.this.node) = TEXT_NODE
    /\ last.this.index < last.cursor.index
    /\ last.ret

\* C19: isBefore and isAfter are duals: a.isBefore(b) exactly when
\* b.isAfter(a), and a.isAfter(b) exactly when b.isBefore(a), also when one
\* anchor is an ancestor or a descendant of the other.
C19_Duals ==
    Compared =>
        /\ SaysBefore <=> isAfter(last.cursor, last.this)
        /\ SaysAfter <=> isBefore(last.cursor, last.this)

(* ----------------------- claims: moving by zero ------------------------ *)
\* C20: moving by zero is the identity: for a text anchor at any index, a
\* container anchor on either side and a root of any kind, move(0) leaves the
\* position with the same anchor and the same offset.
C20_MoveZeroIdentity ==
    (last.op = "move" /\ IsPosition(last.pre) /\ last.offset = 0) =>
        /\ ~last.thrown
        /\ cur = last.pre

(* ------------------------ claims: construction ------------------------- *)
\* the index as the setter sees it after booleans are coerced to 0 and 1
Coerced(n) == IF n.type = "boolean" THEN Num(IF n.val THEN 1 ELSE 0) ELSE n
IsNonNegativeInteger(n) == IsInteger(n) /\ n.val >= 0

\* the last call made a cursor or assigned one of its fields
Constructing == last.op \in {"new Cursor", "new Cursor (second)", "node =", "index ="}

\* the arguments of the last call that are not valid
BadAnchor == "node" \in DOMAIN last /\ ~isNode(last.node)
BadOffset == "index" \in DOMAIN last /\ ~IsNonNegativeInteger(Coerced(last.index))

\* C18: making a cursor or assigning its node or index fails exactly when the
\* anchor is not a node or the offset, booleans coerced to 0 and 1, is not a
\* non-negative integer; every cursor made holds a node and a non-negative
\* integer offset.
C18_ConstructionValidates ==
    /\ Constructing => (last.thrown <=> (BadAnchor \/ BadOffset))
    /\ cur # NoCursor => (isNode(cur.node) /\ cur.index \in Nat /\ "plus" \notin DOMAIN cur)

(* ---------------------------- claims: slice ---------------------------- *)
\* the last call was slice; the nodes of the tree it was called on; the
\* nodes of what it returned
Sliced == last.op = "slice"
Returned == Sliced /\ last.thrown = "no"
Source == 1..last.size

\* C12: with root omitted, slice fails with the configuration error exactly
\* when both start and end are omitted; when one of them is given, the root is
\* the root of the tree of the given position and slice does not fail for the
\* lack of a root.
C12_RootDerivation ==
    (Sliced /\ last.args.root = Null) =>
        LET noStart == last.args.start.node = Null
            noEnd == last.args.end.node = Null
            noRoot == last.thrown = "Must specify a root node if start and end cursors are not defined."
        IN /\ noRoot <=> (noStart /\ noEnd)
           /\ ~(noStart /\ noEnd) =>
                 /\ last.thrown = "no"
                 /\ last.of[1] = getRootNode(IF noStart THEN last.args.end.node
                                             ELSE last.args.start.node)

\* the place of a position in the true document order, as a key compared
\* from left to right: a side of a node that is no text node is before or
\* after its whole subtree, an inner node closing after the nodes below it
Depth(n) == Len(AncestorsOrSelf(n))
LastOfSubtree(n) == LET sub == Preorder(n) IN DocIndex(sub[Len(sub)])
PositionKey(p) ==
    IF nodeType(p.node) = TEXT_NODE THEN <<DocIndex(p.node), 0, p.index>>
    ELSE IF p.index = 0 THEN <<DocIndex(p.node), 0, 0>>
    ELSE <<LastOfSubtree(p.node), 1, last.size - Depth(p.node)>>
Later(p, q) ==
    LET k == PositionKey(p)
        l == PositionKey(q)
    IN \/ k[1] > l[1]
       \/ k[1] = l[1] /\ k[2] > l[2]
       \/ k[1] = l[1] /\ k[2] = l[2] /\ k[3] > l[3]

RECURSIVE Shape(_, _)
\* the tree below node n of the heap h, without the identities of its nodes
Shape(h, n) ==
    [nodeType |-> h[n].nodeType, nodeValue |-> h[n].nodeValue,
     childNodes |-> [i \in 1..Len(h[n].childNodes) |-> Shape(h, h[n].childNodes[i])]]

\* the last call was slice(a, b, root) of two positions within root
SlicedPair ==
    /\ Returned
    /\ last.args.start.node # Null
    /\ last.args.end.node # Null

\* slice(b, a, root), for the a, b and root of the last call
Swapped == slice(last.args.end, last.args.start, last.args.root, last.second)

\* C13: for two positions a and b within root, the position slice uses as
\* start after its swap is never later in document order than the one it uses
\* as end, and slice(a, b, root) and slice(b, a, root) give structurally
\* identical fragments.
C13_OrderNormalized ==
    SlicedPair =>
        /\ ~Later(last.start, last.end)
        /\ Swapped.thrown = "no"
        /\ Shape(Swapped.heap, Swapped.ret) = Shape(dom, last.ret)

\* the last call was slice(null, null, root) with a root
SlicedWhole ==
    /\ Sliced
    /\ last.args.start.node = Null
    /\ last.args.end.node = Null
    /\ last.args.root # Null

\* C14: slice(null, null, root) returns a structural clone of root, whatever
\* kind of node root is: the same shape, the same kinds of nodes and the same
\* text in every text node.
C14_WholeIsClone ==
    SlicedWhole =>
        /\ last.thrown = "no"
        /\ last.ret # Null
        /\ Shape(dom, last.ret) = Shape(dom, last.args.root)

\* the clones of the last call, and the text the clone of node n was given
Clones == {last.size + i : i \in 1..Len(last.of)}
CloneOf(n) == CHOOSE c \in Clones : last.of[c - last.size] = n
Cloned == {last.of[i] : i \in 1..Len(last.of)}

\* C15: in the result of slice, the clone of a text node that is both the
\* start and the end anchor holds the text between the two offsets; of one
\* that is the start anchor only, the text from the start offset on; of one
\* that is the end anchor only, the text up to the end offset; of any other
\* text node, the whole text.
C15_BoundaryTruncation ==
    Returned =>
        \A n \in Cloned :
            nodeType(n) = TEXT_NODE =>
                LET text == nodeValue(n)
                    from == IF n = last.start.node THEN Min(last.start.index, Len(text)) ELSE 0
                    to == IF n = last.end.node THEN Min(last.end.index, Len(text)) ELSE Len(text)
                IN nodeValue(CloneOf(n)) = SubSeq(text, from + 1, to)

\* the root the last call sliced, and the two positions it sliced between,
\* the earlier first by the true document order
SlicedRoot == last.of[1]
Low == IF Later(last.start, last.end) THEN last.end ELSE last.start
High == IF Later(last.start, last.end) THEN last.start ELSE last.end

\* the positions at the beginning and at the end of node n
BeginningOf(n) == [node |-> n, index |-> 0]
EndOf(n) ==
    [node |-> n, index |-> IF nodeType(n) = TEXT_NODE THEN Len(nodeValue(n)) ELSE 1]
IsAncestorOrSelf(n, m) == \E i \in 1..Len(AncestorsOrSelf(m)) : AncestorsOrSelf(m)[i] = n

\* node n belongs to the range: it wraps an anchor, or lies strictly between
\* the two positions
InRange(n) ==
    \/ IsAncestorOrSelf(n, Low.node)
    \/ IsAncestorOrSelf(n, High.node)
    \/ (Later(BeginningOf(n), Low) /\ Later(High, EndOf(n)))

\* the children of clone c are the clones of the cloned children of the node
\* it was made of, in their order
KeepsOrder(c) ==
    LET n == last.of[c - last.size]
        kept == SelectSeq(childNodes(n), LAMBDA child : child \in Cloned)
    IN /\ Len(dom[c].childNodes) = Len(kept)
       /\ \A i \in 1..Len(kept) : dom[c].childNodes[i] = CloneOf(kept[i])

\* C16: a node of the sliced root has a clone in the result exactly when it is
\* an ancestor-or-self of the start anchor or of the end anchor, or lies
\* strictly between start and end in the true document order; a node outside
\* has none, nor has any node below it; the clones of the children of a node
\* keep their order.
C16_NodeInclusion ==
    Returned =>
        /\ \A n \in Subtree(SlicedRoot) : (n \in Cloned) <=> InRange(n)
        /\ \A n \in Cloned : parentNode(n) \in Cloned \/ n = SlicedRoot
        /\ \A c \in Clones : KeepsOrder(c)
        /\ last.ret = last.size + 1

RECURSIVE TreeOf(_, _)
RECURSIVE TreesOf(_, _)
\* the nodes of the tree below node n of the heap h
TreeOf(h, n) == {n} \cup TreesOf(h, h[n].childNodes)
TreesOf(h, ns) == IF ns = <<>> THEN {} ELSE TreeOf(h, Head(ns)) \cup TreesOf(h, Tail(ns))

\* C17: slice never changes the tree it is called on, whether it returns or
\* throws: every node keeps its parent, its children in their order and its
\* text; and no node of the fragment it returns is a node of that tree.
C17_SourceUntouched ==
    [][last'.op = "slice" =>
          /\ \A n \in Nodes : dom'[n] = dom[n]
          /\ last'.thrown = "no" =>
                /\ last'.ret \notin Nodes
                /\ TreeOf(dom', last'.ret) \cap Nodes = {}
                /\ dom'[last'.ret].parentNode = Null]_vars

\* slice returned a fragment of three nodes with a shortened text, from a
\* tree that still has its three nodes and its text
C17_Witness ==
    /\ Returned
    /\ last.size = 3
    /\ Cardinality(TreeOf(dom, last.ret)) = 3
    /\ Cardinality(TreeOf(dom, 1)) = 3
    /\ \E n \in Cloned : nodeValue(CloneOf(n)) # nodeValue(n)

====
